---- MODULE Spec2Model ----
(***************************************************************************)
(* The option-block text protocol of the MODFLOW-NWT packages (OptionBlock) *)
(* as the example notebooks exercise it: an OptionBlock is built from an    *)
(* option line or loaded from a package file, edited by attribute sets,     *)
(* switched between block and line writing, written out and loaded again.   *)
(* The second part is the format descriptor of a numeric array              *)
(* (ArrayFormat): set from a Fortran edit descriptor or field by field, and *)
(* read through its Fortran, template and formatter views.  The third part  *)
(* is flopy.which, the search for a model executable.                       *)
(*                                                                         *)
(* A text is a sequence of lines, a line is a sequence of whitespace        *)
(* separated tokens, a token is a string.                                   *)
(***************************************************************************)
EXTENDS Integers, Sequences, FiniteSets, TLC

VARIABLES
    options,    \* the OptionBlock held by the package (uzf.options), or NoBlock
    err,        \* outcome of the last operation: "none" or the error kind raised
    last,       \* the last operation performed, with the text it was given
    history,    \* a disable / re-enable pair in progress, with the text before it
    format,     \* the ArrayFormat of a numeric array (ml.dis.botm[0].format), or NoFormat
    warnings,   \* the warnings the last operation printed
    sibling,    \* a second model's instances (ml1's format, uzf2's options), or NoSibling
    files,      \* the executables on disk, as <<directory, name>> pairs
    found       \* what the last flopy.which(name) returned

vars == <<options, err, last, history, format, warnings, sibling, files, found>>

(***************************************************************************)
(* Bounds of the model                                                      *)
(***************************************************************************)
NumFloats == 2      \* float sub-values 0.1 .. 0.<NumFloats> offered to the setters
MaxTokens == 3      \* longest option line handed to the OptionBlock constructor

(***************************************************************************)
(* Values and their text                                                    *)
(***************************************************************************)
\* A numeric sub-value: a float is kept in tenths, an integer as itself.
FloatVal(t) == [type |-> "float", v |-> t]
IntVal(n) == [type |-> "int", v |-> n]
NoValue == [type |-> "error", v |-> 0]

IntInputs == {20, 90}
FloatInputs == 1..NumFloats

\* str(x) of a Python float or int.
FloatText(t) == ToString(t \div 10) \o "." \o ToString(t % 10)
IntText(n) == ToString(n)
Str(val) == IF val.type = "float" THEN FloatText(val.v) ELSE IntText(val.v)

\* float(token) and int(token): NoValue when the token is no such number.
FloatOf(tok) ==
    IF \E t \in FloatInputs : FloatText(t) = tok
    THEN FloatVal(CHOOSE t \in FloatInputs : FloatText(t) = tok)
    ELSE IF \E n \in IntInputs : IntText(n) = tok \/ FloatText(10 * n) = tok
    THEN FloatVal(10 * (CHOOSE n \in IntInputs :
                            IntText(n) = tok \/ FloatText(10 * n) = tok))
    ELSE NoValue
IntOf(tok) ==
    IF \E n \in IntInputs : IntText(n) = tok
    THEN IntVal(CHOOSE n \in IntInputs : IntText(n) = tok)
    ELSE NoValue
Coerce(tok, type) == IF type = "float" THEN FloatOf(tok) ELSE IntOf(tok)

\* The spellings of the words of the protocol: <<as written, lower, upper>>.
Spellings == {
    <<"nosurfleak", "nosurfleak", "NOSURFLEAK">>,
    <<"NOSURFLEAK", "nosurfleak", "NOSURFLEAK">>,
    <<"etsquare", "etsquare", "ETSQUARE">>,
    <<"ETSQUARE", "etsquare", "ETSQUARE">>,
    <<"savefinf", "savefinf", "SAVEFINF">>,
    <<"SaveFinf", "savefinf", "SAVEFINF">>,
    <<"SAVEFINF", "savefinf", "SAVEFINF">>,
    <<"specify", "specify", "SPECIFY">>,
    <<"Specify", "specify", "SPECIFY">>,
    <<"SPECIFY", "specify", "SPECIFY">>,
    <<"noprint", "noprint", "NOPRINT">>,
    <<"NOPRINT", "noprint", "NOPRINT">>,
    <<"auxillary", "auxillary", "AUXILLARY">>,
    <<"aux", "aux", "AUX">>,
    <<"AUX", "aux", "AUX">>,
    <<"iface", "iface", "IFACE">>,
    <<"IFACE", "iface", "IFACE">>,
    <<"options", "options", "OPTIONS">>,
    <<"OPTIONS", "options", "OPTIONS">>,
    <<"end", "end", "END">>,
    <<"END", "end", "END">>,
    <<"bogus", "bogus", "BOGUS">>,
    <<"BOGUS", "bogus", "BOGUS">> }

\* str.upper() and str.lower() of a token; digits and the point have no case.
Upper(tok) ==
    IF \E w \in Spellings : w[1] = tok
    THEN (CHOOSE w \in Spellings : w[1] = tok)[3] ELSE tok
Lower(tok) ==
    IF \E w \in Spellings : w[1] = tok
    THEN (CHOOSE w \in Spellings : w[1] = tok)[2] ELSE tok

(***************************************************************************)
(* The options spec of a package type, in declaration order                 *)
(***************************************************************************)
Packages == {"UZF", "WEL"}

options_spec(package) ==
    IF package = "UZF"
    THEN << [name |-> "nosurfleak", types |-> <<>>],
            [name |-> "etsquare", types |-> <<"float">>],
            [name |-> "savefinf", types |-> <<>>] >>
    ELSE IF package = "WEL"
    THEN << [name |-> "specify", types |-> <<"float", "int">>] >>
    ELSE <<>>

Names(package) ==
    {options_spec(package)[i].name : i \in 1..Len(options_spec(package))}
DeclIndex(package, name) ==
    CHOOSE i \in 1..Len(options_spec(package)) : options_spec(package)[i].name = name
Types(package, name) == options_spec(package)[DeclIndex(package, name)].types

\* Variant: the block carries no attribute beside the options of the spec.
LineAttributes_None(package) == {}

\* The keywords of the WEL package's own item line, which its OptionBlock
\* carries as attributes beside the options of the spec.
LineAttributes(package) ==
    IF package = "WEL" THEN {"noprint", "auxillary"} ELSE {}
AttributeNames(package) == Names(package) \cup LineAttributes(package)

NoBlock == [package |-> "none"]

(***************************************************************************)
(* Rendering                                                                *)
(***************************************************************************)
IsEnabled(ob, name) ==
    \E i \in 1..Len(ob.recognized_options) : ob.recognized_options[i] = name

\* One line of the block: the option's name, then its sub-values, upper-cased.
OptionLine(ob, name) ==
    <<Upper(name)>> \o
    [i \in 1..Len(ob.vals[name]) |-> Upper(Str(ob.vals[name][i]))]

\* Variant: the lines follow the order in which the options were switched on.
BlockLines_Insertion(ob, i) ==
    [k \in 1..Len(ob.recognized_options) |-> OptionLine(ob, ob.recognized_options[k])]

\* Variant: an option that was switched off keeps its line while its
\* sub-values are cached.
BlockLines_Cached(ob, i) ==
    LET spec == options_spec(ob.package)
        shown == SelectSeq([k \in 1..Len(spec) |-> spec[k].name],
                           LAMBDA n : IsEnabled(ob, n) \/ ob.vals[n] # <<>>)
    IN  [k \in 1..Len(shown) |-> OptionLine(ob, shown[k])]

\* The lines of the enabled options among entries i.. of the options spec.
RECURSIVE BlockLines(_, _)
BlockLines(ob, i) ==
    IF i > Len(options_spec(ob.package)) THEN <<>>
    ELSE LET name == options_spec(ob.package)[i].name
         IN  (IF IsEnabled(ob, name) THEN <<OptionLine(ob, name)>> ELSE <<>>)
             \o BlockLines(ob, i + 1)

\* repr(options): always the OPTIONS ... END block.
Repr(ob) == << <<"OPTIONS">> >> \o BlockLines(ob, 1) \o << <<"END">> >>

\* " ".join(lines): the tokens of the lines, one after the other.
RECURSIVE Join(_)
Join(lines) == IF lines = <<>> THEN <<>> ELSE Head(lines) \o Join(Tail(lines))

\* Variant: the line holds the names of the options alone.
single_line_options_Names(ob) ==
    [i \in 1..Len(BlockLines(ob, 1)) |-> BlockLines(ob, 1)[i][1]]

\* options.single_line_options: the interior lines of the block on one line.
single_line_options(ob) == Join(SubSeq(Repr(ob), 2, Len(Repr(ob)) - 1))

\* Variant: the block is written whatever the mode.
WriteOptions_AlwaysBlock(ob) == Repr(ob)

\* The option text the package writes: the block, or the single line.
WriteOptions(ob) ==
    IF ob.block THEN Repr(ob) ELSE << single_line_options(ob) >>

\* The item line of the WEL file (MXACTW IPAKCB, then the line keywords).
ItemLine(ob) ==
    <<"5", "0">> \o (IF ob.noprint THEN <<"NOPRINT">> ELSE <<>>)
    \o [i \in 1..Len(ob.auxillary) |-> Upper(ob.auxillary[i])]

\* Variant: in line mode the item keywords and the options share one line.
FileLines_Joined(ob) ==
    IF ob.package = "WEL"
    THEN IF ob.block THEN Repr(ob) \o << ItemLine(ob) >>
         ELSE << ItemLine(ob) \o single_line_options(ob) >>
    ELSE WriteOptions(ob)

\* The head of the package file as write_file lays it out.
FileLines(ob) ==
    IF ob.package = "WEL"
    THEN IF ob.block THEN Repr(ob) \o << ItemLine(ob) >>
         ELSE << ItemLine(ob) >> \o WriteOptions(ob)
    ELSE WriteOptions(ob)

(***************************************************************************)
(* Parsing                                                                  *)
(***************************************************************************)
EmptyBlock(package, block) ==
    [package |-> package,
     recognized_options |-> <<>>,
     vals |-> [n \in Names(package) |-> <<>>],
     block |-> block,
     noprint |-> FALSE,
     auxillary |-> <<>>]

\* Variant: switching an option on puts the block in BLOCK mode.
Enable_BlockMode(ob, name, vs) ==
    [ob EXCEPT !.recognized_options =
                   IF IsEnabled(ob, name) THEN @ ELSE Append(@, name),
               !.vals[name] = vs,
               !.block = TRUE]

\* Variant: the option is switched on and its sub-values are not stored.
Enable_NoStore(ob, name, vs) ==
    [ob EXCEPT !.recognized_options =
                   IF IsEnabled(ob, name) THEN @ ELSE Append(@, name)]

\* The option is switched on with the sub-values vs (appended to the mapping
\* when it was absent, kept in place when it was present).
Enable(ob, name, vs) ==
    [ob EXCEPT !.recognized_options =
                   IF IsEnabled(ob, name) THEN @ ELSE Append(@, name),
               !.vals[name] = vs]

\* Variant: the name token is matched as it is written.
ParseEntry_CaseSensitive(entry, acc) ==
    IF acc.err = "ParseError" THEN acc
    ELSE IF entry = <<>> \/ Head(entry) \notin Names(acc.ob.package)
    THEN [acc EXCEPT !.err = "ParseError"]
    ELSE LET name == Head(entry)
             ts == Types(acc.ob.package, name)
             vs == [i \in 1..Len(ts) |->
                        IF i + 1 <= Len(entry) THEN Coerce(entry[i + 1], ts[i])
                        ELSE NoValue]
         IN  IF Len(entry) - 1 # Len(ts) THEN [acc EXCEPT !.err = "ParseError"]
             ELSE IF \E i \in 1..Len(ts) : vs[i] = NoValue
             THEN [acc EXCEPT !.err = "TypeMismatchError"]
             ELSE [acc EXCEPT !.ob = Enable(@, name, vs)]

\* One option entry: a name token followed by exactly its sub-values.  An
\* unrecognized entry is a ParseError whatever else is wrong with the text; a
\* sub-value that cannot be coerced is a TypeMismatchError.
ParseEntry(entry, acc) ==
    IF acc.err = "ParseError" THEN acc
    ELSE IF entry = <<>> \/ Lower(Head(entry)) \notin Names(acc.ob.package)
    THEN [acc EXCEPT !.err = "ParseError"]
    ELSE LET name == Lower(Head(entry))
             ts == Types(acc.ob.package, name)
             vs == [i \in 1..Len(ts) |->
                        IF i + 1 <= Len(entry) THEN Coerce(entry[i + 1], ts[i])
                        ELSE NoValue]
         IN  IF Len(entry) - 1 # Len(ts) THEN [acc EXCEPT !.err = "ParseError"]
             ELSE IF \E i \in 1..Len(ts) : vs[i] = NoValue
             THEN [acc EXCEPT !.err = "TypeMismatchError"]
             ELSE [acc EXCEPT !.ob = Enable(@, name, vs)]

\* BLOCK grammar: one entry per interior line.
RECURSIVE ParseEntries(_, _)
ParseEntries(lines, acc) ==
    IF lines = <<>> THEN acc
    ELSE ParseEntries(Tail(lines), ParseEntry(Head(lines), acc))

RECURSIVE ParseTokens(_, _)

\* Variant (tolerant mode): a token that is no option name is skipped.
ParseTokens_Tolerant(tokens, acc) ==
    IF tokens = <<>> \/ acc.err = "ParseError" THEN acc
    ELSE IF Lower(Head(tokens)) \notin Names(acc.ob.package)
    THEN ParseTokens(Tail(tokens), acc)
    ELSE LET n == Len(Types(acc.ob.package, Lower(Head(tokens))))
             m == IF n + 1 <= Len(tokens) THEN n + 1 ELSE Len(tokens)
         IN  ParseTokens(SubSeq(tokens, m + 1, Len(tokens)),
                         ParseEntry(SubSeq(tokens, 1, m), acc))

\* LINE grammar: entries follow each other on the line; each name token takes
\* as many following tokens as its spec declares sub-values.
ParseTokens(tokens, acc) ==
    IF tokens = <<>> \/ acc.err = "ParseError" THEN acc
    ELSE IF Lower(Head(tokens)) \notin Names(acc.ob.package)
    THEN [acc EXCEPT !.err = "ParseError"]
    ELSE LET n == Len(Types(acc.ob.package, Lower(Head(tokens))))
             m == IF n + 1 <= Len(tokens) THEN n + 1 ELSE Len(tokens)
         IN  ParseTokens(SubSeq(tokens, m + 1, Len(tokens)),
                         ParseEntry(SubSeq(tokens, 1, m), acc))

\* A parse that failed returns no OptionBlock.
Outcome(acc) == IF acc.err = "none" THEN acc ELSE [err |-> acc.err, ob |-> NoBlock]

IsKeyword(line, word) == Len(line) = 1 /\ Upper(line[1]) = word

\* Variant: the block parsed is in BLOCK mode whatever the grammar of the text.
Parse_AlwaysBlock(text, package) ==
    IF Len(text) >= 2 /\ IsKeyword(text[1], "OPTIONS")
    THEN IF IsKeyword(text[Len(text)], "END")
         THEN Outcome(ParseEntries(SubSeq(text, 2, Len(text) - 1),
                          [err |-> "none", ob |-> EmptyBlock(package, TRUE)]))
         ELSE [err |-> "ParseError", ob |-> NoBlock]
    ELSE IF Len(text) = 1
    THEN Outcome(ParseTokens(text[1],
                     [err |-> "none", ob |-> EmptyBlock(package, TRUE)]))
    ELSE [err |-> "ParseError", ob |-> NoBlock]

\* Parse(raw_text, options_spec): the grammar that matches sets the mode.
Parse(text, package) ==
    IF Len(text) >= 2 /\ IsKeyword(text[1], "OPTIONS")
    THEN IF IsKeyword(text[Len(text)], "END")
         THEN Outcome(ParseEntries(SubSeq(text, 2, Len(text) - 1),
                          [err |-> "none", ob |-> EmptyBlock(package, TRUE)]))
         ELSE [err |-> "ParseError", ob |-> NoBlock]
    ELSE IF Len(text) = 1
    THEN Outcome(ParseTokens(text[1],
                     [err |-> "none", ob |-> EmptyBlock(package, FALSE)]))
    ELSE [err |-> "ParseError", ob |-> NoBlock]

\* Variant: the mode is that of the text, a line, whatever the caller asks for.
OptionBlock_LineMode(options_line, package, block) ==
    Outcome(ParseTokens(options_line,
                [err |-> "none", ob |-> EmptyBlock(package, FALSE)]))

\* OptionBlock(options_line, package, block): the line is parsed, the mode is
\* the one the caller asks for.
OptionBlock(options_line, package, block) ==
    Outcome(ParseTokens(options_line,
                [err |-> "none", ob |-> EmptyBlock(package, block)]))

\* The keywords of the WEL item line go to the attributes of the block.
WithItem(r, item) ==
    IF r.err # "none" THEN r
    ELSE LET words == SubSeq(item, 3, Len(item))
             aux == SelectSeq(words, LAMBDA t : Upper(t) # "NOPRINT")
         IN  [r EXCEPT !.ob.noprint = \E i \in 1..Len(words) : Upper(words[i]) = "NOPRINT",
                       !.ob.auxillary = [i \in 1..Len(aux) |-> Lower(aux[i])]]

\* The option text in the head of a package file: the lines from OPTIONS to
\* the first END, or the one line where the package expects its option line.
OptionText(lines, package) ==
    IF lines # <<>> /\ IsKeyword(lines[1], "OPTIONS")
    THEN LET ends == {i \in 2..Len(lines) : IsKeyword(lines[i], "END")}
         IN  IF ends = {} THEN lines
             ELSE SubSeq(lines, 1, CHOOSE i \in ends : \A j \in ends : i <= j)
    ELSE IF package = "WEL"
    THEN IF Len(lines) < 2 THEN <<>> ELSE << lines[2] >>
    ELSE IF lines = <<>> THEN <<>> ELSE << lines[1] >>

\* The item line of a WEL file: after the block, or before the option line.
ItemText(lines, package) ==
    IF package # "WEL" \/ lines = <<>> THEN <<>>
    ELSE IF IsKeyword(lines[1], "OPTIONS")
    THEN IF Len(OptionText(lines, package)) < Len(lines)
         THEN lines[Len(OptionText(lines, package)) + 1] ELSE <<>>
    ELSE lines[1]

\* Package.load: finds the option text in the head of the file and parses it.
Load(lines, package) ==
    WithItem(Parse(OptionText(lines, package), package), ItemText(lines, package))

(***************************************************************************)
(* Attribute sets                                                           *)
(***************************************************************************)
\* What is assigned: True / False, None, a tuple of numeric sub-values, or a
\* list of strings.
BoolArg(b) == [kind |-> "bool", b |-> b, vals |-> <<>>, strs |-> <<>>]
NoneArg == [kind |-> "none", b |-> FALSE, vals |-> <<>>, strs |-> <<>>]
ValsArg(vs) == [kind |-> "vals", b |-> TRUE, vals |-> vs, strs |-> <<>>]
StrsArg(ss) == [kind |-> "strs", b |-> TRUE, vals |-> <<>>, strs |-> ss]

Values == {FloatVal(t) : t \in FloatInputs} \cup {IntVal(n) : n \in IntInputs}
Args ==
    {BoolArg(TRUE), BoolArg(FALSE), NoneArg, StrsArg(<<"aux", "iface">>)}
    \cup {ValsArg(<<v>>) : v \in Values}
    \cup {ValsArg(<<FloatVal(t), IntVal(n)>>) : t \in FloatInputs, n \in IntInputs}
    \cup {ValsArg(<<IntVal(20), FloatVal(1)>>), ValsArg(<<FloatVal(1), FloatVal(1)>>)}

\* The names the sets try: the options of the package, the two item-line
\* names, and two names no block has.
SetNames(package) ==
    Names(package)
    \cup {"noprint", "auxillary", "bogus", IF package = "UZF" THEN "specify" ELSE "savefinf"}

\* Variant: switching an option off forgets its sub-values.
Disable_Forget(ob, name) ==
    [ob EXCEPT !.recognized_options = SelectSeq(@, LAMBDA n : n # name),
               !.vals[name] = <<>>]

\* The option leaves the mapping; its sub-values stay cached.
Disable(ob, name) ==
    [ob EXCEPT !.recognized_options = SelectSeq(@, LAMBDA n : n # name)]

WellTyped(vs, ts) ==
    Len(vs) = Len(ts) /\ \A i \in 1..Len(ts) : vs[i].type = ts[i]

\* Variant: a bare True switches any option on.
typecheck_BareTrue(ob, name, arg) ==
    IF name \notin AttributeNames(ob.package) THEN "AttributeError"
    ELSE IF arg.kind = "none" THEN "none"
    ELSE IF name = "noprint"
    THEN IF arg.kind = "bool" THEN "none" ELSE "TypeError"
    ELSE IF name = "auxillary"
    THEN IF arg.kind = "strs" THEN "none" ELSE "TypeError"
    ELSE LET ts == Types(ob.package, name)
         IN  IF arg.kind = "bool" THEN "none"
             ELSE IF arg.kind = "vals" /\ ts # <<>> /\ WellTyped(arg.vals, ts)
             THEN "none" ELSE "TypeError"

\* The check a set makes before it assigns: the error it raises, or "none".
typecheck(ob, name, arg) ==
    IF name \notin AttributeNames(ob.package) THEN "AttributeError"
    ELSE IF arg.kind = "none" THEN "none"
    ELSE IF name = "noprint"
    THEN IF arg.kind = "bool" THEN "none" ELSE "TypeError"
    ELSE IF name = "auxillary"
    THEN IF arg.kind = "strs" THEN "none" ELSE "TypeError"
    ELSE LET ts == Types(ob.package, name)
         IN  IF arg.kind = "bool"
             THEN IF ~arg.b \/ ts = <<>> \/ ob.vals[name] # <<>>
                  THEN "none" ELSE "TypeError"
             ELSE IF arg.kind = "vals" /\ ts # <<>> /\ WellTyped(arg.vals, ts)
             THEN "none" ELSE "TypeError"

\* The assignment of a checked argument.
assign(ob, name, arg) ==
    IF name = "noprint" THEN [ob EXCEPT !.noprint = arg.kind = "bool" /\ arg.b]
    ELSE IF name = "auxillary" THEN [ob EXCEPT !.auxillary = arg.strs]
    ELSE IF arg.kind = "none" \/ (arg.kind = "bool" /\ ~arg.b) THEN Disable(ob, name)
    ELSE IF arg.kind = "bool" THEN Enable(ob, name, ob.vals[name])
    ELSE Enable(ob, name, arg.vals)

\* Variant: a set that fails its type check has switched the option off.
setattr_Partial(ob, name, arg) ==
    IF typecheck(ob, name, arg) # "none"
    THEN [err |-> typecheck(ob, name, arg),
          ob |-> IF name \in Names(ob.package) THEN Disable(ob, name) ELSE ob]
    ELSE [err |-> "none", ob |-> assign(ob, name, arg)]

\* options.<name> = <arg>: the block after the set and the error raised.
setattr(ob, name, arg) ==
    IF typecheck(ob, name, arg) # "none"
    THEN [err |-> typecheck(ob, name, arg), ob |-> ob]
    ELSE [err |-> "none", ob |-> assign(ob, name, arg)]

\* Variant: the switch rebuilds the block from its flags alone.
setblock_Rebuild(ob, b) ==
    [ob EXCEPT !.block = b,
               !.recognized_options =
                   SelectSeq(@, LAMBDA n : Types(ob.package, n) = <<>>)]

\* options.block = b
setblock(ob, b) == [ob EXCEPT !.block = b]

(***************************************************************************)
(* Inputs                                                                   *)
(***************************************************************************)
\* The tokens an option line for the constructor is made of.
Alphabet(package) ==
    {FloatText(t) : t \in FloatInputs} \cup {"20", "bogus"} \cup
    (IF package = "UZF" THEN {"nosurfleak", "ETSQUARE", "SaveFinf"}
     ELSE {"specify", "SPECIFY", "90"})

OptionLines(package) ==
    UNION {[1..k -> Alphabet(package)] : k \in 0..MaxTokens}

\* Package files of the data directory: the two the notebook loads, and
\* malformed variants of them.
DataFiles(package) ==
    IF package = "UZF"
    THEN { << <<"OPTIONS">>, <<"NOSURFLEAK">>, <<"ETSQUARE", "0.2">>,
              <<"SAVEFINF">>, <<"END">> >>,
           << <<"options">>, <<"savefinf">>, <<"etsquare", "0.1">>, <<"end">> >>,
           << <<"nosurfleak", "etsquare", "0.2", "savefinf">> >>,
           << <<"OPTIONS">>, <<"NOSURFLEAK">>, <<"BOGUS">>, <<"END">> >>,
           << <<"OPTIONS">>, <<"ETSQUARE", "BOGUS">>, <<"BOGUS">>, <<"END">> >>,
           << <<"OPTIONS">>, <<"ETSQUARE">>, <<"END">> >>,
           << <<"OPTIONS">>, <<"ETSQUARE", "BOGUS">>, <<"END">> >>,
           << <<"OPTIONS">>, <<"NOSURFLEAK">>, <<"SAVEFINF">> >>,
           << <<"NOSURFLEAK", "BOGUS">> >> }
    ELSE { << <<"OPTIONS">>, <<"SPECIFY", "0.1", "90">>, <<"END">>,
              <<"5", "0", "NOPRINT">> >>,
           << <<"5", "0", "NOPRINT", "AUX", "IFACE">>, <<"specify", "0.2", "20">> >>,
           << <<"OPTIONS">>, <<"SPECIFY", "0.1", "0.2">>, <<"END">>, <<"5", "0">> >>,
           << <<"OPTIONS">>, <<"BOGUS", "0.1", "90">>, <<"END">>, <<"5", "0">> >>,
           << <<"5", "0">>, <<"SPECIFY", "0.1", "90", "BOGUS">> >> }

(***************************************************************************)
(* The state machine                                                        *)
(***************************************************************************)
NoHistory == [stage |-> "none", name |-> "", text |-> <<>>, line |-> <<>>]
NoFormat == [dtype |-> "none"]
NoSibling == [format |-> NoFormat, options |-> NoBlock]
NoResult == [kind |-> "nothing"]
Did(op) == [op |-> op, package |-> "none", text |-> <<>>]

Init ==
    /\ options = NoBlock
    /\ err = "none"
    /\ last = Did("start")
    /\ history = NoHistory
    /\ format = NoFormat
    /\ warnings = <<>>
    /\ sibling = NoSibling
    /\ files = {}
    /\ found = NoResult

\* options = OptionBlock(opt_line, package, block=block)
Construct(package, options_line, block) ==
    /\ UNCHANGED <<format, warnings, sibling, files, found>>
    /\ err = "none"
    /\ options = NoBlock
    /\ LET r == OptionBlock(options_line, package, block)
       IN  /\ options' = r.ob
           /\ err' = r.err
    /\ last' = [op |-> "construct", package |-> package, text |-> << options_line >>,
                block |-> block]
    /\ history' = NoHistory

\* package = Package.load(<file of the data directory>)
LoadData(package, lines) ==
    /\ UNCHANGED <<format, warnings, sibling, files, found>>
    /\ err = "none"
    /\ LET r == Load(lines, package)
       IN  /\ options' = IF r.err = "none" THEN r.ob ELSE options
           /\ err' = r.err
    /\ last' = [op |-> "load", package |-> package, text |-> OptionText(lines, package)]
    /\ history' = NoHistory

\* options.<name> = <arg>
SetAttr(name, arg) ==
    /\ UNCHANGED <<format, warnings, sibling, files, found>>
    /\ err = "none"
    /\ options # NoBlock
    /\ LET r == setattr(options, name, arg)
       IN  /\ options' = r.ob
           /\ err' = r.err
    /\ last' = [op |-> "setattr", name |-> name, bare |-> arg = BoolArg(TRUE)]
    /\ history' =
           IF /\ name \in Names(options.package)
              /\ Types(options.package, name) # <<>>
              /\ IsEnabled(options, name)
              /\ arg = BoolArg(FALSE)
           THEN [stage |-> "disabled", name |-> name, text |-> Repr(options),
                 line |-> single_line_options(options)]
           ELSE IF /\ history.stage = "disabled"
                   /\ history.name = name
                   /\ arg = BoolArg(TRUE)
           THEN [history EXCEPT !.stage = "reenabled"]
           ELSE NoHistory

\* options.block = b
SetBlock(b) ==
    /\ UNCHANGED <<format, warnings, sibling, files, found>>
    /\ err = "none"
    /\ options # NoBlock
    /\ options' = setblock(options, b)
    /\ err' = "none"
    /\ last' = Did("setblock")
    /\ history' = NoHistory

\* package.write_file(name); package2 = Package.load(name): the head of the
\* file is written in the current mode and loaded again.
Reload ==
    /\ UNCHANGED <<format, warnings, sibling, files, found>>
    /\ err = "none"
    /\ options # NoBlock
    /\ LET r == Load(FileLines(options), options.package)
       IN  /\ options' = IF r.err = "none" THEN r.ob ELSE options
           /\ err' = r.err
    /\ last' = Did("reload")
    /\ history' = NoHistory

\* ml.remove_package(name): the block goes with the package that owns it.
RemovePackage ==
    /\ UNCHANGED <<format, warnings, sibling, files, found>>
    /\ err = "none"
    /\ options # NoBlock
    /\ options' = NoBlock
    /\ err' = "none"
    /\ last' = Did("remove")
    /\ history' = NoHistory

\* try: ... except: pass -- the caller handles the error that was raised.
Except ==
    /\ UNCHANGED <<format, warnings, sibling, files, found>>
    /\ err # "none"
    /\ err' = "none"
    /\ last' = Did("except")
    /\ history' = NoHistory
    /\ UNCHANGED options

Next ==
    \/ /\ options = NoBlock /\ err = "none"
       /\ \E package \in Packages, block \in BOOLEAN :
             \E options_line \in OptionLines(package) :
                 Construct(package, options_line, block)
    \/ \E package \in Packages : \E lines \in DataFiles(package) :
          LoadData(package, lines)
    \/ \E name \in SetNames(options.package), arg \in Args : SetAttr(name, arg)
    \/ \E b \in BOOLEAN : SetBlock(b)
    \/ Reload
    \/ RemovePackage
    \/ Except

Spec == Init /\ [][Next]_vars

(***************************************************************************)
(* ArrayFormat: the format descriptor of a numeric array                    *)
(*                                                                         *)
(* A descriptor text is the sequence of its parts: "(20F10.4)" is           *)
(* <<"(", "20", "F", "10", ".", "4", ")">>.                                 *)
(***************************************************************************)
NumericKinds == {"float", "integer"}

default_float_width == 15
default_float_decimal == 6
default_int_width == 10
default_int_decimal == 0
default_npl == 20

\* Variant: one default width for both numeric types.
DefaultWidth_Same(dtype) == default_float_width

DefaultWidth(dtype) ==
    IF dtype = "float" THEN default_float_width ELSE default_int_width
DefaultDecimal(dtype) ==
    IF dtype = "float" THEN default_float_decimal ELSE default_int_decimal
DefaultFormat(dtype) == IF dtype = "float" THEN "E" ELSE "I"

\* ArrayFormat(u2d): the defaults of the array's numeric type, free format.
ArrayFormat(dtype) ==
    [dtype |-> dtype,
     npl |-> default_npl,
     format |-> DefaultFormat(dtype),
     width |-> DefaultWidth(dtype),
     decimal |-> DefaultDecimal(dtype),
     free |-> TRUE,
     binary |-> FALSE]

\* The numbers a descriptor is written with, their text, and int(token).
Numbers == {0, 1, 4, 6, 9, 10, 15, 20}
NumText(n) == ToString(n)
NumOf(tok) ==
    IF \E n \in Numbers : NumText(n) = tok
    THEN CHOOSE n \in Numbers : NumText(n) = tok
    ELSE -1

\* The format kinds and the letters they are written with: <<written, kind>>.
Kinds == {"E", "F", "G", "I"}
KindLetters ==
    { <<"e", "E">>, <<"E", "E">>, <<"f", "F">>, <<"F", "F">>,
      <<"g", "G">>, <<"G", "G">>, <<"i", "I">>, <<"I", "I">> }
\* Variant: the kind letter is taken as it is written.
KindOf_AsWritten(tok) == tok

\* The kind a letter stands for, in upper case; "?" for any other token.
KindOf(tok) ==
    IF \E k \in KindLetters : k[1] = tok
    THEN (CHOOSE k \in KindLetters : k[1] = tok)[2] ELSE "?"

Descriptor(n, K, w, d) == <<"(", NumText(n), K, NumText(w), ".", NumText(d), ")">>
FreeDescriptor == <<"(", "FREE", ")">>

\* The fixed grammar (<n><K><w>.<d>): a repeat count, a kind letter in any
\* case, a width and a decimal count; the three numbers are taken as written.
IsFixedDescriptor(fd) ==
    /\ Len(fd) = 7
    /\ fd[1] = "(" /\ fd[5] = "." /\ fd[7] = ")"
    /\ NumOf(fd[2]) >= 0 /\ KindOf(fd[3]) \in Kinds
    /\ NumOf(fd[4]) >= 0 /\ NumOf(fd[6]) >= 0

\* Variant: no text is refused.
descriptor_error_Lenient(fd) == "none"

\* The error a descriptor text raises: a text of neither grammar is malformed.
descriptor_error(fd) ==
    IF fd = FreeDescriptor \/ IsFixedDescriptor(fd) THEN "none" ELSE "FormatError"

\* The fields a descriptor stands for; a text that is no fixed descriptor
\* stands for free format.
decode_fortran_descriptor(fd) ==
    IF IsFixedDescriptor(fd)
    THEN [kind |-> "fixed", npl |-> NumOf(fd[2]), format |-> KindOf(fd[3]),
          width |-> NumOf(fd[4]), decimal |-> NumOf(fd[6])]
    ELSE [kind |-> "free", npl |-> 0, format |-> "", width |-> 0, decimal |-> 0]

\* Variant: the repeat count is left out of the descriptor written.
fortran_NoRepeat(f) ==
    IF f.free THEN FreeDescriptor
    ELSE Descriptor(1, f.format, f.width, f.decimal)

\* format.fortran: the edit descriptor of the current fields, or (FREE).
fortran(f) ==
    IF f.free THEN FreeDescriptor
    ELSE Descriptor(f.npl, f.format, f.width, f.decimal)

\* Variant: the template leaves the kind letter out.
py_NoKind(f) ==
    <<NumText(f.npl), <<"{0:", NumText(f.width), ".", NumText(f.decimal), "}">> >>

\* format.py: the values per line and the template of one value.
py(f) ==
    <<NumText(f.npl),
      <<"{0:", NumText(f.width), ".", NumText(f.decimal), f.format, "}">> >>

\* format.numpy: the specifier of the vectorized formatter.
numpy(f) == <<"%", NumText(f.width), f.format, ".", NumText(f.decimal)>>

\* The result of a set: the descriptor after it, the error raised, the
\* warnings printed.
Done(f, ws) == [format |-> f, err |-> "none", warnings |-> ws]

\* Variant: free = True switches the flag and keeps the fields.
set_free_NoReset(f, b) == Done([f EXCEPT !.free = b], <<>>)

\* format.free = b: free format resets width and decimal to the defaults.
set_free(f, b) ==
    IF b THEN Done([f EXCEPT !.free = TRUE,
                             !.width = DefaultWidth(f.dtype),
                             !.decimal = DefaultDecimal(f.dtype)], <<>>)
    ELSE Done([f EXCEPT !.free = FALSE], <<>>)

\* Variant: the format is made fixed before the descriptor is looked at.
set_fortran_Partial(f, text) ==
    LET fd == decode_fortran_descriptor(text)
    IN  IF descriptor_error(text) # "none"
        THEN [format |-> [f EXCEPT !.free = FALSE],
              err |-> descriptor_error(text), warnings |-> <<>>]
        ELSE IF fd.kind = "free" THEN set_free(f, TRUE)
        ELSE Done([f EXCEPT !.free = FALSE,
                            !.npl = fd.npl,
                            !.format = fd.format,
                            !.width = fd.width,
                            !.decimal = fd.decimal], <<>>)

\* format.fortran = text: the fields are set from the descriptor; no warning
\* is printed for a width or a decimal below the default.
set_fortran(f, text) ==
    LET fd == decode_fortran_descriptor(text)
    IN  IF descriptor_error(text) # "none"
        THEN [format |-> f, err |-> descriptor_error(text), warnings |-> <<>>]
        ELSE IF fd.kind = "free" THEN set_free(f, TRUE)
        ELSE Done([f EXCEPT !.free = FALSE,
                            !.npl = fd.npl,
                            !.format = fd.format,
                            !.width = fd.width,
                            !.decimal = fd.decimal], <<>>)

WidthWarnings(f, w) ==
    IF w < DefaultWidth(f.dtype) THEN <<"width less than default">> ELSE <<>>
DecimalWarnings(f, d) ==
    (IF d < DefaultDecimal(f.dtype) THEN <<"decimal less than default">> ELSE <<>>)
    \o (IF d < f.decimal THEN <<"decimal less than current value">> ELSE <<>>)

\* Variant: the width is recorded as it is given.
set_width_Record(f, w) == Done([f EXCEPT !.width = w], WidthWarnings(f, w))

\* format.width = w: a warning below the default; the default is a floor, and
\* a free format keeps the default.
set_width(f, w) ==
    Done([f EXCEPT !.width =
              IF f.free \/ w < DefaultWidth(f.dtype) THEN DefaultWidth(f.dtype) ELSE w],
         WidthWarnings(f, w))

\* Variant: the decimal is recorded as it is given.
set_decimal_Record(f, d) == Done([f EXCEPT !.decimal = d], DecimalWarnings(f, d))

\* format.decimal = d: likewise.
set_decimal(f, d) ==
    Done([f EXCEPT !.decimal =
              IF f.free \/ d < DefaultDecimal(f.dtype) THEN DefaultDecimal(f.dtype) ELSE d],
         DecimalWarnings(f, d))

\* format.binary = b
set_binary(f, b) == Done([f EXCEPT !.binary = b], <<>>)

\* The descriptor texts assigned: well formed ones in either case of the kind
\* letter, (FREE), and texts of neither form.
FixedDescriptors ==
    {Descriptor(n, K, w, d) : n \in {1, 20}, K \in {"f", "E", "g"}, w \in {10, 15}, d \in {4, 6}}
    \cup {Descriptor(n, "i", 10, 0) : n \in {1, 20}}
    \cup {Descriptor(0, "f", 0, 0)}
MalformedDescriptors ==
    { <<>>,
      <<"20", "F", "10", ".", "4">>,
      <<"(", "20", "F", "10", ".", "4">>,
      <<"(", "20", "F", ".", "4", ")">>,
      <<"(", "bogus", ")">> }
DescriptorInputs == FixedDescriptors \cup {FreeDescriptor} \cup MalformedDescriptors
WidthInputs == {9, 15, 20}
DecimalInputs == {1, 6, 9}

InitArray ==
    /\ options = NoBlock
    /\ err = "none"
    /\ last = Did("start")
    /\ history = NoHistory
    /\ format \in {ArrayFormat(dtype) : dtype \in NumericKinds}
    /\ warnings = <<>>
    /\ sibling = NoSibling
    /\ files = {}
    /\ found = NoResult

\* The result r of a set becomes the state.
Becomes(r) ==
    /\ format' = r.format
    /\ err' = r.err
    /\ warnings' = r.warnings
    /\ UNCHANGED <<options, history, sibling, files, found>>

\* format.fortran = text
SetFortran(text) ==
    /\ err = "none"
    /\ Becomes(set_fortran(format, text))
    /\ last' = [op |-> "fortran", text |-> text, before |-> format]

\* format.free = b
SetFree(b) ==
    /\ err = "none"
    /\ Becomes(set_free(format, b))
    /\ last' = [op |-> "free", value |-> b, before |-> format]

\* format.width = w
SetWidth(w) ==
    /\ err = "none"
    /\ Becomes(set_width(format, w))
    /\ last' = [op |-> "width", value |-> w, before |-> format]

\* format.decimal = d
SetDecimal(d) ==
    /\ err = "none"
    /\ Becomes(set_decimal(format, d))
    /\ last' = [op |-> "decimal", value |-> d, before |-> format]

\* format.binary = b
SetBinary(b) ==
    /\ err = "none"
    /\ Becomes(set_binary(format, b))
    /\ last' = [op |-> "binary", value |-> b, before |-> format]

\* ml1 = Modflow.load(...): the array of the loaded model has a new
\* ArrayFormat, with the defaults of its numeric type.
NewFormat(dtype) ==
    /\ err = "none"
    /\ Becomes(Done(ArrayFormat(dtype), <<>>))
    /\ last' = [op |-> "new", before |-> format]

\* print(format.fortran); print(format.py); print(format.numpy)
ReadViews ==
    /\ err = "none"
    /\ Becomes(Done(format, <<>>))
    /\ last' = [op |-> "read",
                views |-> [fortran |-> fortran(format), py |-> py(format),
                           numpy |-> numpy(format)]]

NextArray ==
    \/ \E dtype \in NumericKinds : NewFormat(dtype)
    \/ ReadViews
    \/ \E text \in DescriptorInputs : SetFortran(text)
    \/ \E b \in BOOLEAN : SetFree(b)
    \/ \E w \in WidthInputs : SetWidth(w)
    \/ \E d \in DecimalInputs : SetDecimal(d)
    \/ \E b \in BOOLEAN : SetBinary(b)
    \/ Except

SpecArray == InitArray /\ [][NextArray]_vars

(***************************************************************************)
(* Two models side by side: ml and ml1, each with its own instances          *)
(***************************************************************************)
\* The operations the notebook performs on a format, and more of their kind.
FormatOps ==
    { [op |-> "fortran", text |-> <<"(", "20", "f", "10", ".", "4", ")">>],
      [op |-> "fortran", text |-> <<"(", "bogus", ")">>],
      [op |-> "free", b |-> TRUE],
      [op |-> "free", b |-> FALSE],
      [op |-> "width", n |-> 9],
      [op |-> "decimal", n |-> 1] }

\* The operations on an option block.
OptionOps ==
    { [op |-> "setattr", name |-> "etsquare", arg |-> BoolArg(FALSE)],
      [op |-> "setattr", name |-> "etsquare", arg |-> BoolArg(TRUE)],
      [op |-> "setattr", name |-> "nosurfleak", arg |-> ValsArg(<<IntVal(20)>>)],
      [op |-> "setattr", name |-> "bogus", arg |-> BoolArg(TRUE)],
      [op |-> "setblock", b |-> TRUE],
      [op |-> "setblock", b |-> FALSE] }

\* The operation o on the format f.
apply_format(f, o) ==
    IF o.op = "fortran" THEN set_fortran(f, o.text)
    ELSE IF o.op = "free" THEN set_free(f, o.b)
    ELSE IF o.op = "width" THEN set_width(f, o.n)
    ELSE set_decimal(f, o.n)

\* The operation o on the option block ob.
apply_options(ob, o) ==
    IF o.op = "setattr" THEN setattr(ob, o.name, o.arg)
    ELSE [err |-> "none", ob |-> setblock(ob, o.b)]

\* Variant: the width is kept in one place for all the formats.
other_format_Shared(f, r) == [f EXCEPT !.width = r.format.width]

\* The format of the other model after an operation with result r on this
\* one: an operation has one instance, and the other is as it was.
other_format(f, r) == f

\* The block uzf.options of the model loaded from the data directory.
LoadedOptions ==
    Load(<< <<"OPTIONS">>, <<"NOSURFLEAK">>, <<"ETSQUARE", "0.2">>,
            <<"SAVEFINF">>, <<"END">> >>, "UZF").ob

\* ml and ml1 are loaded: each has its format and its option block.
InitPair ==
    /\ options = LoadedOptions
    /\ err = "none"
    /\ last = Did("start")
    /\ history = NoHistory
    /\ format = ArrayFormat("float")
    /\ warnings = <<>>
    /\ sibling = [format |-> ArrayFormat("float"), options |-> LoadedOptions]
    /\ files = {}
    /\ found = NoResult

\* ml.dis.botm[0].format.<field> = ...
OnFormat(o) ==
    /\ err = "none"
    /\ LET r == apply_format(format, o)
       IN  /\ format' = r.format
           /\ err' = r.err
           /\ warnings' = r.warnings
           /\ sibling' = [sibling EXCEPT !.format = other_format(@, r)]
    /\ last' = [op |-> "first", what |-> o]
    /\ UNCHANGED <<options, history, files, found>>

\* ml1.dis.botm[0].format.<field> = ...
OnSiblingFormat(o) ==
    /\ err = "none"
    /\ LET r == apply_format(sibling.format, o)
       IN  /\ sibling' = [sibling EXCEPT !.format = r.format]
           /\ err' = r.err
           /\ warnings' = r.warnings
           /\ format' = other_format(format, r)
    /\ last' = [op |-> "second", what |-> o]
    /\ UNCHANGED <<options, history, files, found>>

\* uzf.options.<name> = ..., uzf.options.block = ...
OnOptions(o) ==
    /\ err = "none"
    /\ LET r == apply_options(options, o)
       IN  /\ options' = r.ob
           /\ err' = r.err
    /\ warnings' = <<>>
    /\ last' = [op |-> "first", what |-> o]
    /\ UNCHANGED <<sibling, format, history, files, found>>

\* uzf2.options.<name> = ..., uzf2.options.block = ...
OnSiblingOptions(o) ==
    /\ err = "none"
    /\ LET r == apply_options(sibling.options, o)
       IN  /\ sibling' = [sibling EXCEPT !.options = r.ob]
           /\ err' = r.err
    /\ warnings' = <<>>
    /\ last' = [op |-> "second", what |-> o]
    /\ UNCHANGED <<options, format, history, files, found>>

NextPair ==
    \/ \E o \in FormatOps : OnFormat(o)
    \/ \E o \in FormatOps : OnSiblingFormat(o)
    \/ \E o \in OptionOps : OnOptions(o)
    \/ \E o \in OptionOps : OnSiblingOptions(o)
    \/ Except

SpecPair == InitPair /\ [][NextPair]_vars

(***************************************************************************)
(* flopy.which: the search for a model executable                           *)
(***************************************************************************)
\* The directories of PATH, in order, the working directory, and a directory
\* that is neither.
PathDirs == <<"venv/bin", "usgs-executables">>
WorkingDir == "."
Directories == {"venv/bin", "usgs-executables", ".", "downloads"}
Executables == {"mf2005", "no-exist.exe"}

\* The directories searched, in order.
SearchDirs == PathDirs \o <<WorkingDir>>

\* What which returns: the path of a file, or None.
PathOf(dir, name) == [kind |-> "path", dir |-> dir, name |-> name]
NoneValue == [kind |-> "None"]

\* flopy.which(name): the first directory searched that holds the executable
\* gives its path; None when no directory searched holds it.
which(name, fs) ==
    LET hits == {i \in 1..Len(SearchDirs) : <<SearchDirs[i], name>> \in fs}
    IN  IF hits = {} THEN NoneValue
        ELSE PathOf(SearchDirs[CHOOSE i \in hits : \A j \in hits : i <= j], name)

\* The machine of the notebook: mf2005 is in a directory of PATH.
InitWhich ==
    /\ options = NoBlock
    /\ err = "none"
    /\ last = Did("start")
    /\ history = NoHistory
    /\ format = NoFormat
    /\ warnings = <<>>
    /\ sibling = NoSibling
    /\ files = {<<"usgs-executables", "mf2005">>}
    /\ found = NoResult

\* flopy.which(name)
Which(name) ==
    /\ found' = which(name, files)
    /\ last' = [op |-> "which", name |-> name]
    /\ UNCHANGED <<options, err, history, format, warnings, sibling, files>>

\* The executable is downloaded or compiled and put into a directory.
Install(dir, name) ==
    /\ <<dir, name>> \notin files
    /\ files' = files \cup {<<dir, name>>}
    /\ last' = [op |-> "install", name |-> name]
    /\ UNCHANGED <<options, err, history, format, warnings, sibling, found>>

\* The executable is taken out of a directory.
Uninstall(dir, name) ==
    /\ <<dir, name>> \in files
    /\ files' = files \ {<<dir, name>>}
    /\ last' = [op |-> "uninstall", name |-> name]
    /\ UNCHANGED <<options, err, history, format, warnings, sibling, found>>

NextWhich ==
    \/ \E name \in Executables : Which(name)
    \/ \E dir \in Directories, name \in Executables : Install(dir, name)
    \/ \E dir \in Directories, name \in Executables : Uninstall(dir, name)

SpecWhich == InitWhich /\ [][NextWhich]_vars

TypeOK ==
    /\ err \in {"none", "AttributeError", "TypeError", "ParseError", "TypeMismatchError",
                "FormatError"}
    /\ options = NoBlock \/ options.package \in Packages
    /\ format = NoFormat \/ format.dtype \in NumericKinds

(***************************************************************************)
(* Properties                                                               *)
(***************************************************************************)
EnabledNames(ob) == {n \in Names(ob.package) : IsEnabled(ob, n)}

\* Same enabled options, same sub-values of the enabled options, same mode.
SameBlock(a, b) ==
    /\ a.package = b.package
    /\ a.block = b.block
    /\ EnabledNames(a) = EnabledNames(b)
    /\ \A n \in EnabledNames(a) : a.vals[n] = b.vals[n]

\* C1: round trip. Writing the block in its current mode (BLOCK or LINE) and
\* parsing the text against the same options spec succeeds and gives a block
\* with the same enabled options, the same sub-values and the same mode, and
\* the text it renders is the text that was parsed.
C1_RoundTrip ==
    [][last'.op = "reload" =>
          /\ err' = "none"
          /\ SameBlock(options', options)
          /\ WriteOptions(options') = WriteOptions(options)]_vars

C1_Witness ==
    /\ last.op = "reload" /\ err = "none"
    /\ options # NoBlock /\ options.package = "UZF"
    /\ ~options.block
    /\ IsEnabled(options, "etsquare") /\ IsEnabled(options, "savefinf")

\* The names of the rendered options, in the order of the text.
BlockNames(ob) ==
    [i \in 1..Len(BlockLines(ob, 1)) |-> Lower(BlockLines(ob, 1)[i][1])]
LineNames(ob) ==
    LET toks == SelectSeq(single_line_options(ob),
                          LAMBDA t : Lower(t) \in Names(ob.package))
    IN  [i \in 1..Len(toks) |-> Lower(toks[i])]
InDeclarationOrder(names, package) ==
    \A i, j \in 1..Len(names) :
        i < j => DeclIndex(package, names[i]) < DeclIndex(package, names[j])

\* The block with the same options, switched on in declaration order.
Canonical(ob) ==
    [ob EXCEPT !.recognized_options =
        SelectSeq([k \in 1..Len(options_spec(ob.package)) |->
                       options_spec(ob.package)[k].name],
                  LAMBDA n : IsEnabled(ob, n))]

\* C2: whatever the order of the sets, the enabled options are rendered, in
\* BLOCK and in LINE form, in the declaration order of the options spec, and
\* the text equals the text of a block with the same options switched on in
\* declaration order.
C2_DeclarationOrder ==
    options # NoBlock =>
        /\ InDeclarationOrder(BlockNames(options), options.package)
        /\ InDeclarationOrder(LineNames(options), options.package)
        /\ {BlockNames(options)[i] : i \in 1..Len(BlockNames(options))}
               = EnabledNames(options)
        /\ Repr(options) = Repr(Canonical(options))
        /\ single_line_options(options) = single_line_options(Canonical(options))

C2_Witness ==
    /\ options # NoBlock /\ options.package = "UZF"
    /\ last.op = "setattr"
    /\ options.recognized_options = <<"nosurfleak", "savefinf", "etsquare">>
    /\ Repr(options)[3][1] = "ETSQUARE"

\* C3: a valued option switched off with False and switched on again with a
\* bare True comes back with its sub-values: the set succeeds and both texts
\* are the texts from before the option was switched off.
C3_ReenableRestores ==
    history.stage = "reenabled" =>
        /\ err = "none"
        /\ Repr(options) = history.text
        /\ single_line_options(options) = history.line

C3_Witness ==
    /\ history.stage = "reenabled" /\ history.name = "etsquare"
    /\ options # NoBlock /\ options.package = "UZF"
    /\ IsEnabled(options, "etsquare")
    /\ options.vals["etsquare"] = << FloatVal(2) >>

\* C4: the block text is OPTIONS, one line per enabled option (its name in
\* upper case, then its sub-values), END; an option that is switched off is in
\* neither text.
C4_BlockRendering ==
    options # NoBlock =>
        LET r == Repr(options)
            body == 2..(Len(r) - 1)
        IN  /\ Len(r) = 2 + Cardinality(EnabledNames(options))
            /\ r[1] = <<"OPTIONS">>
            /\ r[Len(r)] = <<"END">>
            /\ \A n \in EnabledNames(options) :
                  /\ Cardinality({i \in body : r[i][1] = Upper(n)}) = 1
                  /\ \A i \in body :
                        r[i][1] = Upper(n) =>
                            r[i] = <<Upper(n)>> \o
                                   [k \in 1..Len(options.vals[n]) |->
                                        Str(options.vals[n][k])]
            /\ \A n \in Names(options.package) \ EnabledNames(options) :
                  /\ \A i \in body : r[i][1] # Upper(n)
                  /\ \A k \in 1..Len(single_line_options(options)) :
                        single_line_options(options)[k] # Upper(n)

C4_Witness ==
    /\ options # NoBlock /\ options.package = "UZF"
    /\ last.op = "setattr"
    /\ ~IsEnabled(options, "etsquare")
    /\ options.vals["etsquare"] # <<>>
    /\ IsEnabled(options, "nosurfleak")

\* The block built from "specify 0.1 20", with noprint and auxillary set, in
\* LINE mode.
C5_Case ==
    /\ options # NoBlock /\ options.package = "WEL"
    /\ options.recognized_options = <<"specify">>
    /\ options.vals["specify"] = << FloatVal(1), IntVal(20) >>
    /\ options.noprint
    /\ options.auxillary = <<"aux", "iface">>
    /\ ~options.block

Contains(line, tokens) == \A t \in tokens : \E k \in 1..Len(line) : line[k] = t

\* C5 as stated: the three (specify with its sub-values, noprint, auxillary
\* with its values) are written on one single line.
C5_OneLine ==
    C5_Case =>
        \E i \in 1..Len(FileLines(options)) :
            Contains(FileLines(options)[i],
                     {"SPECIFY", "0.1", "20", "NOPRINT", "AUX", "IFACE"})

\* C5 amended: the option line holds the option of the spec alone, SPECIFY 0.1
\* 20; noprint and auxillary are written as NOPRINT AUX IFACE on the item
\* line of the package, which is another line and comes before the option
\* line.
C5_OptionLineAndItemLine ==
    C5_Case =>
        /\ single_line_options(options) = <<"SPECIFY", "0.1", "20">>
        /\ WriteOptions(options) = << <<"SPECIFY", "0.1", "20">> >>
        /\ FileLines(options) = << <<"5", "0", "NOPRINT", "AUX", "IFACE">>,
                                   <<"SPECIFY", "0.1", "20">> >>

C5_Witness == C5_Case /\ last.op = "setblock"

\* C6: the printed representation of the block is the option text that is
\* written for it: the single line in LINE mode, the OPTIONS ... END block in
\* BLOCK mode.
C6_ReprIsWrittenText ==
    options # NoBlock => Repr(options) = WriteOptions(options)

\* C7: an assignment to block changes neither text; assigning the mode the
\* block already has changes nothing; what is written afterwards is the block
\* text or the single line of the same options, as the new mode says.  (So a
\* switch and a switch back give the text of the original mode again.)
C7_ModeSwitch ==
    [][last'.op = "setblock" =>
          /\ Repr(options') = Repr(options)
          /\ single_line_options(options') = single_line_options(options)
          /\ (options'.block = options.block => options' = options)
          /\ WriteOptions(options') =
                 IF options'.block THEN Repr(options)
                 ELSE << single_line_options(options) >>]_vars

C7_Witness ==
    /\ last.op = "setblock"
    /\ options # NoBlock /\ options.package = "UZF"
    /\ ~options.block
    /\ IsEnabled(options, "etsquare") /\ IsEnabled(options, "nosurfleak")

\* C8 as stated: a set of a name that is no option of the options spec fails
\* with an AttributeError and leaves the block as it was.
C8_OnlySpecNamesSettable ==
    [][last'.op = "setattr" =>
          \A name \in SetNames(options.package) \ Names(options.package), arg \in Args :
              SetAttr(name, arg) => (err' = "AttributeError" /\ options' = options)]_vars

\* C8 amended: the option names of a block are at all times those of the
\* options spec of its package.  A set of a name that is neither an option of
\* the spec nor an item-line attribute of the block (noprint and auxillary on
\* a WEL block) fails with an AttributeError and leaves the block as it was; a
\* set of noprint or auxillary on a WEL block is no AttributeError, and adds
\* no option.
C8_NameSetFixed ==
    [][/\ options' # NoBlock =>
              /\ DOMAIN options'.vals = Names(options'.package)
              /\ \A i \in 1..Len(options'.recognized_options) :
                    options'.recognized_options[i] \in Names(options'.package)
       /\ last'.op = "setattr" =>
              \A name \in SetNames(options.package), arg \in Args :
                  SetAttr(name, arg) =>
                      IF \/ name \in Names(options.package)
                         \/ (options.package = "WEL" /\ name \in {"noprint", "auxillary"})
                      THEN err' # "AttributeError"
                      ELSE err' = "AttributeError" /\ options' = options]_vars

C8_Witness ==
    /\ last.op = "setattr" /\ err = "AttributeError"
    /\ options # NoBlock /\ options.package = "WEL"
    /\ options.noprint
    /\ options.auxillary = <<"aux", "iface">>

RECURSIVE UnknownIn(_, _)
UnknownIn(tokens, package) ==
    IF tokens = <<>> THEN FALSE
    ELSE IF Lower(Head(tokens)) \notin Names(package) THEN TRUE
    ELSE LET n == Len(Types(package, Lower(Head(tokens))))
         IN  IF n + 1 >= Len(tokens) THEN FALSE
             ELSE UnknownIn(SubSeq(tokens, n + 2, Len(tokens)), package)

UnknownOption(text, package) ==
    IF /\ Len(text) >= 2
       /\ IsKeyword(text[1], "OPTIONS")
       /\ IsKeyword(text[Len(text)], "END")
    THEN \E i \in 2..(Len(text) - 1) : UnknownIn(text[i], package)
    ELSE Len(text) = 1 /\ UnknownIn(text[1], package)

\* C10: a parse of a text that holds a token which is no option name of the
\* spec and no sub-value of the option before it fails with a ParseError, and
\* no OptionBlock comes of it: the constructor leaves none, a load leaves the
\* block that was there.
C10_UnknownTokenParseError ==
    [][(/\ last'.op \in {"construct", "load"}
        /\ UnknownOption(last'.text, last'.package))
       => /\ err' = "ParseError"
          /\ options' = options
          /\ (last'.op = "construct" => options' = NoBlock)]_vars

C10_Witness ==
    /\ last.op = "construct" /\ err = "ParseError"
    /\ last.text = << <<"ETSQUARE", "bogus", "bogus">> >>
    /\ options = NoBlock

\* The lines of a text that hold option entries: the interior of a block, or
\* the line itself.
IsBlockText(text) ==
    /\ Len(text) >= 2
    /\ IsKeyword(text[1], "OPTIONS") /\ IsKeyword(text[Len(text)], "END")
IsLineText(text) == Len(text) = 1 /\ ~IsKeyword(text[1], "OPTIONS")
EntryLines(text) ==
    IF IsBlockText(text) THEN SubSeq(text, 2, Len(text) - 1) ELSE text

\* C11: the grammar that matched sets the mode. A text bracketed by OPTIONS and
\* END that parses gives BLOCK mode, a single option line that parses gives
\* LINE mode; so the text written in LINE mode is one line and loads with
\* block = False, and the text written in BLOCK mode is bracketed and loads
\* with block = True.
C11_ModeFromGrammar ==
    [][/\ (last'.op = "load" /\ err' = "none") =>
              /\ IsBlockText(last'.text) => options'.block
              /\ IsLineText(last'.text) => ~options'.block
       /\ last'.op = "reload" =>
              /\ err' = "none"
              /\ options'.block = options.block
              /\ IsBlockText(WriteOptions(options)) = options.block
              /\ IsLineText(WriteOptions(options)) = ~options.block]_vars

C11_Witness ==
    /\ last.op = "load" /\ err = "none"
    /\ last.package = "UZF" /\ IsLineText(last.text)
    /\ options # NoBlock /\ ~options.block
    /\ IsEnabled(options, "etsquare")

\* The places of a text where the name of an option stands, in any case.
Mentions(text, name) ==
    {<<l, i>> \in (1..Len(EntryLines(text))) \X (1..(MaxTokens + 2)) :
        i <= Len(EntryLines(text)[l]) /\ Lower(EntryLines(text)[l][i]) = name}

UzfBlockText ==
    << <<"OPTIONS">>, <<"NOSURFLEAK">>, <<"ETSQUARE", "0.2">>, <<"SAVEFINF">>, <<"END">> >>

\* C12: after a successful parse (of a loaded text or of a constructor's line)
\* an option of the spec is enabled exactly when its name stands in the text,
\* in any case; an enabled valued option holds the tokens that follow its name,
\* coerced to the declared types; an option whose name is absent is disabled
\* and holds nothing. The block NOSURFLEAK / ETSQUARE 0.2 / SAVEFINF inside
\* OPTIONS .. END parses, and gives nosurfleak, etsquare = 0.2 and savefinf.
C12_ParseResult ==
    [][/\ (last'.op \in {"load", "construct"} /\ err' = "none") =>
              \A name \in Names(last'.package) :
                  LET at == Mentions(last'.text, name)
                      ts == Types(last'.package, name)
                  IN  /\ IsEnabled(options', name) <=> at # {}
                      /\ at = {} => options'.vals[name] = <<>>
                      /\ at # {} =>
                            \E p \in at :
                                LET line == EntryLines(last'.text)[p[1]]
                                IN  /\ p[2] + Len(ts) <= Len(line)
                                    /\ options'.vals[name] =
                                           [k \in 1..Len(ts) |-> Coerce(line[p[2] + k], ts[k])]
       /\ (last'.op = "load" /\ last'.package = "UZF" /\ last'.text = UzfBlockText) =>
              /\ err' = "none"
              /\ EnabledNames(options') = {"nosurfleak", "etsquare", "savefinf"}
              /\ options'.vals["etsquare"] = <<FloatVal(2)>>
              /\ options'.vals["nosurfleak"] = <<>> /\ options'.vals["savefinf"] = <<>>
              /\ options'.block]_vars

C12_Witness ==
    /\ last.op = "load" /\ err = "none" /\ last.package = "UZF"
    /\ last.text = << <<"options">>, <<"savefinf">>, <<"etsquare", "0.1">>, <<"end">> >>
    /\ EnabledNames(options) = {"savefinf", "etsquare"}
    /\ options.vals["etsquare"] = <<FloatVal(1)>>

\* C13: a block constructed from an option line has the mode its block flag
\* asks for. The lower-case line "specify 0.1 20" with block = True is in
\* BLOCK mode and is written as OPTIONS / SPECIFY 0.1 20 / END.
C13_ConstructMode ==
    [][last'.op = "construct" =>
          /\ err' = "none" => options'.block = last'.block
          /\ (/\ last'.package = "WEL"
              /\ last'.text = << <<"specify", "0.1", "20">> >>
              /\ last'.block) =>
                 /\ err' = "none"
                 /\ Repr(options') =
                        << <<"OPTIONS">>, <<"SPECIFY", "0.1", "20">>, <<"END">> >>
                 /\ WriteOptions(options') = Repr(options')]_vars

C13_Witness ==
    /\ last.op = "construct" /\ err = "none"
    /\ last.text = << <<"specify", "0.1", "20">> >> /\ last.block
    /\ options # NoBlock /\ options.block
    /\ WriteOptions(options) = << <<"OPTIONS">>, <<"SPECIFY", "0.1", "20">>, <<"END">> >>

\* The warnings printed, as a set.
Printed(ws) == {ws[i] : i \in 1..Len(ws)}

\* C14: setting free format, by format.free = True or by the descriptor
\* (FREE), succeeds from every state, sets the free flag and resets width and
\* decimal to the defaults of the numeric type, whatever they were before.
C14_FreeResets ==
    [][((last'.op = "free" /\ last'.value)
        \/ (last'.op = "fortran" /\ last'.text = FreeDescriptor)) =>
          /\ err' = "none"
          /\ format'.free
          /\ format'.width = DefaultWidth(format.dtype)
          /\ format'.decimal = DefaultDecimal(format.dtype)]_vars

C14_Witness ==
    /\ last.op = "free" /\ last.value /\ err = "none"
    /\ ~last.before.free
    /\ last.before.width < DefaultWidth(format.dtype)
    /\ last.before.decimal < DefaultDecimal(format.dtype)
    /\ format.free
    /\ format.width = DefaultWidth(format.dtype)
    /\ format.decimal = DefaultDecimal(format.dtype)

\* C15: in every reachable state of an ArrayFormat, assigning the descriptor
\* its own Fortran view succeeds and changes no field.
C15_FortranViewRoundTrip ==
    format # NoFormat =>
        /\ set_fortran(format, fortran(format)).err = "none"
        /\ set_fortran(format, fortran(format)).format = format

C15_Witness ==
    /\ last.op = "fortran" /\ err = "none"
    /\ last.text = fortran(last.before)
    /\ format = last.before
    /\ ~format.free /\ format.width < DefaultWidth(format.dtype)

\* The texts of the fixed grammar (<n><K><w>.<d>).
MatchesFixed(text) ==
    /\ Len(text) = 7
    /\ text[1] = "(" /\ text[5] = "." /\ text[7] = ")"
    /\ NumOf(text[2]) >= 0 /\ NumOf(text[4]) >= 0 /\ NumOf(text[6]) >= 0
    /\ \E k \in KindLetters : k[1] = text[3]

\* C16: a fixed descriptor (nKw.d), with K in either case, sets the format not
\* free, values per line n, kind K in upper case, width w and decimal d.
\* "(20f10.4)" gives the Fortran view (20F10.4), the template view
\* (20, '{0:10.4F}') and the formatter view %10F.4.
C16_FixedDescriptor ==
    [][last'.op = "fortran" =>
          /\ MatchesFixed(last'.text) =>
                /\ err' = "none"
                /\ ~format'.free
                /\ NumText(format'.npl) = last'.text[2]
                /\ \E k \in KindLetters : k[1] = last'.text[3] /\ k[2] = format'.format
                /\ NumText(format'.width) = last'.text[4]
                /\ NumText(format'.decimal) = last'.text[6]
          /\ last'.text = <<"(", "20", "f", "10", ".", "4", ")">> =>
                /\ format'.npl = 20 /\ format'.format = "F"
                /\ format'.width = 10 /\ format'.decimal = 4
                /\ fortran(format') = <<"(", "20", "F", "10", ".", "4", ")">>
                /\ py(format') = <<"20", <<"{0:", "10", ".", "4", "F", "}">> >>
                /\ numpy(format') = <<"%", "10", "F", ".", "4">>]_vars

C16_Witness ==
    /\ last.op = "fortran" /\ err = "none"
    /\ last.text = <<"(", "20", "f", "10", ".", "4", ")">>
    /\ last.before.free
    /\ fortran(format) = <<"(", "20", "F", "10", ".", "4", ")">>

\* C17: whenever the format is free, width and decimal are the defaults of
\* the numeric type, and the views report them; an assignment of a narrower
\* width or decimal made while the format is free does not change that.
C17_FreeKeepsDefaults ==
    (format # NoFormat /\ format.free) =>
        /\ format.width = DefaultWidth(format.dtype)
        /\ format.decimal = DefaultDecimal(format.dtype)
        /\ numpy(format)[2] = NumText(DefaultWidth(format.dtype))
        /\ numpy(format)[5] = NumText(DefaultDecimal(format.dtype))

C17_Witness ==
    /\ last.op = "width" /\ last.value = 9 /\ err = "none"
    /\ last.before.free /\ format.dtype = "float"
    /\ format.free /\ format.width = default_float_width

\* C18: an assignment of a width, or of a decimal, below the default of the
\* numeric type raises no error, prints a warning, and leaves the field
\* assigned, as the views report it, at no less than the default.
C18_SetterFloor ==
    [][/\ (last'.op = "width" /\ last'.value < DefaultWidth(format.dtype)) =>
              /\ err' = "none"
              /\ "width less than default" \in Printed(warnings')
              /\ format'.width >= DefaultWidth(format.dtype)
              /\ NumOf(numpy(format')[2]) >= DefaultWidth(format.dtype)
       /\ (last'.op = "decimal" /\ last'.value < DefaultDecimal(format.dtype)) =>
              /\ err' = "none"
              /\ "decimal less than default" \in Printed(warnings')
              /\ format'.decimal >= DefaultDecimal(format.dtype)
              /\ NumOf(numpy(format')[5]) >= DefaultDecimal(format.dtype)]_vars

C18_Witness ==
    /\ last.op = "decimal" /\ last.value = 1 /\ err = "none"
    /\ ~last.before.free /\ last.before.decimal = 4
    /\ "decimal less than default" \in Printed(warnings)
    /\ "decimal less than current value" \in Printed(warnings)
    /\ format.decimal = default_float_decimal

\* C19: a fixed descriptor whose width or decimal is below the default of the
\* numeric type is assigned as requested, and a warning is printed for each
\* such field.
C19_DescriptorWarns ==
    [][(last'.op = "fortran" /\ MatchesFixed(last'.text)) =>
          /\ err' = "none"
          /\ format'.width = NumOf(last'.text[4])
          /\ format'.decimal = NumOf(last'.text[6])
          /\ NumOf(last'.text[4]) < DefaultWidth(format.dtype) =>
                "width less than default" \in Printed(warnings')
          /\ NumOf(last'.text[6]) < DefaultDecimal(format.dtype) =>
                "decimal less than default" \in Printed(warnings')]_vars

\* C20: assigning a text that is neither a fixed descriptor nor (FREE) fails
\* with a FormatError, and the format is as it was.
C20_MalformedDescriptor ==
    [][(/\ last'.op = "fortran"
        /\ last'.text # FreeDescriptor
        /\ ~MatchesFixed(last'.text)) =>
          /\ err' = "FormatError"
          /\ format' = format]_vars

C20_Witness ==
    /\ last.op = "fortran" /\ err = "FormatError"
    /\ last.text = <<"(", "20", "F", ".", "4", ")">>
    /\ ~last.before.free /\ format = last.before

\* C21: a new ArrayFormat has the defaults of its numeric type: 20 values per
\* line, kind E, width 15 and decimal 6 for a float; decimal 0 and a width
\* below the float's for an integer.
C21_Defaults ==
    (last.op \in {"start", "new"} /\ format # NoFormat) =>
        /\ format.npl = 20
        /\ format.dtype = "float" =>
              format.format = "E" /\ format.width = 15 /\ format.decimal = 6
        /\ format.dtype = "integer" =>
              /\ format.decimal = 0
              /\ format.width > 0 /\ format.width < ArrayFormat("float").width

C21_Witness ==
    /\ last.op = "new" /\ ~last.before.free /\ last.before.width = 10
    /\ format.dtype = "integer" /\ format.decimal = 0 /\ format.width < 15

\* C24: the views read are those of the current fields, and reading them
\* changes no field: the Fortran view is (FREE) exactly when the format is
\* free, and else the descriptor of npl, kind, width and decimal; the template
\* view is npl and the template of width, decimal and kind; the formatter
\* view has the same width, kind and decimal. A new float format reads
\* (FREE), (20, '{0:15.6E}') and %15E.6.
C24_ViewsConsistent ==
    [][last'.op = "read" =>
          /\ format' = format
          /\ (last'.views.fortran = <<"(", "FREE", ")">>) <=> format.free
          /\ ~format.free =>
                last'.views.fortran =
                    <<"(", NumText(format.npl), format.format, NumText(format.width),
                      ".", NumText(format.decimal), ")">>
          /\ last'.views.py =
                <<NumText(format.npl),
                  <<"{0:", NumText(format.width), ".", NumText(format.decimal),
                    format.format, "}">> >>
          /\ last'.views.numpy =
                <<"%", NumText(format.width), format.format, ".", NumText(format.decimal)>>
          /\ format = ArrayFormat("float") =>
                /\ last'.views.fortran = <<"(", "FREE", ")">>
                /\ last'.views.py = <<"20", <<"{0:", "15", ".", "6", "E", "}">> >>
                /\ last'.views.numpy = <<"%", "15", "E", ".", "6">>]_vars

C24_Witness ==
    /\ last.op = "read" /\ err = "none"
    /\ ~format.free /\ format.format = "F" /\ format.width = 10
    /\ last.views.py = <<"20", <<"{0:", "10", ".", "4", "F", "}">> >>

\* C25: in every state of an ArrayFormat the values per line and the width
\* are positive and the decimal is not negative.
C25_PositiveFields ==
    format # NoFormat =>
        format.npl > 0 /\ format.width > 0 /\ format.decimal >= 0

\* C28: an assignment of a descriptor that fails with a FormatError changes no
\* field, and the three views are what they were.
C28_FormatErrorNoChange ==
    [][(last'.op = "fortran" /\ err' = "FormatError") =>
          /\ format'.npl = format.npl /\ format'.format = format.format
          /\ format'.width = format.width /\ format'.decimal = format.decimal
          /\ format'.free = format.free /\ format'.binary = format.binary
          /\ fortran(format') = fortran(format)
          /\ py(format') = py(format)
          /\ numpy(format') = numpy(format)]_vars

C28_Witness ==
    /\ last.op = "fortran" /\ err = "FormatError"
    /\ last.text = <<"(", "20", "F", "10", ".", "4">>
    /\ last.before.free /\ format.free /\ format.binary
    /\ fortran(format) = <<"(", "FREE", ")">>

\* C23: the mode of a block is BLOCK or LINE, and a set of an option (one that
\* switches it on, off, on again, or one that fails) leaves the mode as it
\* was: the mode of a block changes by an assignment to block alone. (A load
\* makes a new block, whose mode is that of the text.)
C23_ModeFrame ==
    [][(options # NoBlock /\ options' # NoBlock) =>
          /\ options'.block \in BOOLEAN
          /\ last'.op = "setattr" => options'.block = options.block
          /\ options'.block # options.block => last'.op \in {"setblock", "load"}]_vars

C23_Witness ==
    /\ last.op = "setattr" /\ err = "none"
    /\ history.stage = "reenabled"
    /\ options # NoBlock /\ ~options.block
    /\ IsEnabled(options, history.name)

\* C27: a set that fails, with an AttributeError or a TypeError, leaves the
\* block as it was: the same enabled options, the same stored and cached
\* sub-values, the same mode, and the same text in both forms.
C27_FailedSetNoChange ==
    [][(last'.op = "setattr" /\ err' # "none") =>
          /\ options'.recognized_options = options.recognized_options
          /\ options'.vals = options.vals
          /\ options'.block = options.block
          /\ options'.noprint = options.noprint
          /\ options'.auxillary = options.auxillary
          /\ Repr(options') = Repr(options)
          /\ single_line_options(options') = single_line_options(options)]_vars

C27_Witness ==
    /\ last.op = "setattr" /\ err = "TypeError" /\ ~last.bare
    /\ last.name = "etsquare"
    /\ options # NoBlock /\ ~options.block
    /\ IsEnabled(options, "etsquare") /\ options.vals["etsquare"] = <<FloatVal(2)>>

\* The tokens of lines i.. of a text, one after the other.
RECURSIVE Tokens(_, _)
Tokens(lines, i) ==
    IF i > Len(lines) THEN <<>> ELSE lines[i] \o Tokens(lines, i + 1)

\* C29: in every state the single-line form is the interior lines of the
\* block form, in order, on one line: both carry the same options with the
\* same sub-values.
C29_RenderingsAgree ==
    options # NoBlock =>
        /\ single_line_options(options)
               = Tokens(SubSeq(Repr(options), 2, Len(Repr(options)) - 1), 1)
        /\ Repr(options)[1] = <<"OPTIONS">>
        /\ Repr(options)[Len(Repr(options))] = <<"END">>

C29_Witness ==
    /\ options # NoBlock /\ options.package = "UZF"
    /\ last.op = "setattr" /\ last.bare /\ last.name = "etsquare" /\ err = "none"
    /\ Repr(options) = << <<"OPTIONS">>, <<"NOSURFLEAK">>, <<"ETSQUARE", "0.2">>,
                          <<"SAVEFINF">>, <<"END">> >>
    /\ single_line_options(options) = <<"NOSURFLEAK", "ETSQUARE", "0.2", "SAVEFINF">>

Available(name) ==
    \E i \in 1..Len(SearchDirs) : <<SearchDirs[i], name>> \in files

\* C22: which(name) gives the path of the executable when it is in a
\* directory of PATH or in the working directory, and the empty string when
\* it is in neither.
C22_WhichEmptyString ==
    last.op = "which" =>
        IF Available(last.name)
        THEN /\ found.kind = "path" /\ found.name = last.name
             /\ <<found.dir, found.name>> \in files
             /\ \E i \in 1..Len(SearchDirs) : SearchDirs[i] = found.dir
        ELSE found = [kind |-> "str", text |-> ""]

\* C26: an operation on one instance (a format or an option block of one
\* model), one that warns or fails included, leaves the instances of the
\* other model as they were, in whatever order the operations on the two come.
C26_InstancesIndependent ==
    [][/\ last'.op = "first" => sibling' = sibling
       /\ last'.op = "second" => (format' = format /\ options' = options)]_vars

C26_Witness ==
    /\ last.op = "first" /\ last.what.op = "decimal" /\ err = "none"
    /\ warnings # <<>>
    /\ ~format.free /\ format.width = 10
    /\ sibling.format.free /\ sibling.format.width = 15
    /\ ~sibling.options.block /\ options.block

====
